---- MODULE Spec2Model ----
(***************************************************************************)
(* A state-machine model of src/Input.c (Mylly Input library): the hook    *)
(* and bind stores, the state tracker (cursor position, keyboard block     *)
(* flag), the lifecycle and the dispatch entry points.                     *)
(*                                                                         *)
(* A list_t is modelled as a record [live, nodes]: live is FALSE for a     *)
(* NULL list pointer, nodes is the sequence of records in list order.      *)
(* While a dispatch function walks a list, the variable ids gives every    *)
(* node of that list an address (ids[i] is the address of nodes[i]); the   *)
(* loop variables node and tmp hold addresses, END being list_end(list).   *)
(* An address that is no longer in ids belongs to a record that has been   *)
(* removed and freed: reading through it is undefined behaviour, modelled  *)
(* as a nondeterministic choice and recorded in uaf.                       *)
(***************************************************************************)
EXTENDS Integers, Sequences, FiniteSets, TLC

\* ------------------------------------------------------------ bounds
\* Records (hooks and binds) allocated at the same time.
MaxRecords == 3
\* Number of event types of the model (INPUT_EVENT is declared in Input.h).
NUM_INPUT_EVENTS == 2

\* ------------------------------------------------------------ domains
END == 0
NULL == 0
EventTypes == 0 .. (NUM_INPUT_EVENTS - 1)
\* event ids a caller may pass: the known ones and one out of range
EventArgs == 0 .. NUM_INPUT_EVENTS
Keys == {1, 2}
Coords == {0, 1}
Buttons == {"MOUSE_NONE", "MOUSE_LBUTTON"}
Userdata == {"data"}
\* The areas binds are registered with, and the points dispatched: inside the
\* area, on its far corner, and outside.
Rects == {[left |-> 0, top |-> 0, right |-> 2, bottom |-> 2]}
Points == {<<1, 1>>, <<2, 2>>, <<3, 1>>}
Windows == {"NULL", "hwnd"}
\* Application callbacks: h_pass returns true, h_veto returns false, h_rm
\* removes a record of the collection being dispatched and returns true.
Handlers == {"h_pass", "h_veto", "h_rm"}

HandlerReturns(h) == h # "h_veto"
HandlerRemoves(h) == h = "h_rm"

NullList == [live |-> FALSE, nodes |-> <<>>]
EmptyList == [live |-> TRUE, nodes |-> <<>>]

\* A call: the function, its arguments (list is the BINDTYPE argument), and
\* (px, py), the cursor position stored when the call was made.
NoCall == [fn |-> "none", type |-> 0, key |-> 0, x |-> 0, y |-> 0,
           button |-> "MOUSE_NONE", handler |-> "none", list |-> "none",
           px |-> 0, py |-> 0]
NoEvent == [built |-> FALSE, type |-> 0, key |-> 0, x |-> 0, y |-> 0,
            dx |-> 0, dy |-> 0, button |-> "MOUSE_NONE"]

VARIABLES
    input_initialized, block_keys, mouse_x, mouse_y,
    input_hooks, char_binds, key_up_binds, key_down_binds,
    mouse_up_binds, mouse_down_binds, mouse_move_binds,
    pc,        \* "idle", "loop" (inside a dispatch loop), "done", "crashed"
    call,      \* the dispatch call in progress or just returned
    node, tmp, \* the loop variables of the dispatch function
    ids,       \* addresses of the nodes of the list being walked
    ret,       \* the local ret of the bind dispatch functions
    result,    \* the value returned by the last dispatch call
    event,     \* the local InputEvent of the hook dispatch functions
    entry,     \* the nodes of the walked list when the call was made
    invoked,   \* the handler invocations of the call, in order
    uaf,       \* a freed record was read during the call
    lifecycle, \* "none", or the platform call that a running input_initialize /
               \* input_shutdown is waiting for
    leaked     \* records allocated, in no list any more and never freed

state == <<input_initialized, block_keys, mouse_x, mouse_y, lifecycle, leaked>>
hookLists == <<input_hooks>>
keyLists == <<char_binds, key_up_binds, key_down_binds>>
mouseLists == <<mouse_up_binds, mouse_down_binds, mouse_move_binds>>
walk == <<pc, call, node, tmp, ids, ret, result, event, entry, invoked, uaf>>
vars == <<state, hookLists, keyLists, mouseLists, walk>>

\* ------------------------------------------------------------ list helpers
Range(s) == {s[i] : i \in DOMAIN s}

Iota(n) == [i \in 1 .. n |-> i]

\* The subsequence of s at the positions in keep, in order.
Keep(s, keep) ==
    LET idx == SelectSeq(Iota(Len(s)), LAMBDA i : i \in keep)
    IN  [j \in 1 .. Len(idx) |-> s[idx[j]]]

\* Position of address a in ids (0 when a is not the address of a node).
PosOf(a) == IF a \in Range(ids) THEN CHOOSE i \in DOMAIN ids : ids[i] = a ELSE 0

\* list_begin(list) / node->next over addresses as, for a node that is in the list.
ListBegin(as) == IF Len(as) = 0 THEN END ELSE as[1]
NextOf(as, a) ==
    LET i == CHOOSE j \in DOMAIN as : as[j] = a
    IN  IF i = Len(as) THEN END ELSE as[i + 1]

\* The records in the lists.
Allocated ==
    LET SumHooks[t \in -1 .. (NUM_INPUT_EVENTS - 1)] ==
            IF t = -1 THEN 0 ELSE SumHooks[t - 1] + Len(input_hooks[t].nodes)
    IN  SumHooks[NUM_INPUT_EVENTS - 1]
        + Len(char_binds.nodes) + Len(key_up_binds.nodes) + Len(key_down_binds.nodes)
        + Len(mouse_up_binds.nodes) + Len(mouse_down_binds.nodes)
        + Len(mouse_move_binds.nodes)

\* The records on the heap: mem_alloc_clean without mem_free.
HeapUsed == Allocated + leaked

\* No dispatch call is running: the application (or the platform) may call in.
Callable == pc = "idle"

\* The caller has taken the value a dispatch call returned: the locals of the
\* call are gone.
Resume ==
    /\ pc = "done"
    /\ UNCHANGED <<state, hookLists, keyLists, mouseLists>>
    /\ pc' = "idle"
    /\ call' = NoCall
    /\ node' = END
    /\ tmp' = END
    /\ ids' = <<>>
    /\ ret' = TRUE
    /\ result' = TRUE
    /\ event' = NoEvent
    /\ entry' = <<>>
    /\ invoked' = <<>>
    /\ uaf' = FALSE

\* The call c applies a list function (list_empty, list_push, list_foreach) to
\* a NULL list pointer: the process faults.
NullDeref(c) ==
    /\ pc' = "crashed"
    /\ call' = c
    /\ UNCHANGED <<node, tmp, ids, ret, result, event, entry, invoked, uaf>>

\* A removal call c that returns (void) after its walk of a list that held
\* the given nodes when the call was made.
ReturnRemoved(c, nodes) ==
    /\ pc' = "done"
    /\ call' = c
    /\ node' = END
    /\ tmp' = END
    /\ ids' = <<>>
    /\ ret' = TRUE
    /\ result' = TRUE
    /\ event' = NoEvent
    /\ entry' = nodes
    /\ invoked' = <<>>
    /\ uaf' = FALSE

\* A call that returns r without walking a list.
ReturnEarly(c, r) ==
    /\ pc' = "done"
    /\ call' = c
    /\ node' = END
    /\ tmp' = END
    /\ ids' = <<>>
    /\ ret' = TRUE
    /\ result' = r
    /\ event' = NoEvent
    /\ entry' = <<>>
    /\ invoked' = <<>>
    /\ uaf' = FALSE

Init ==
    /\ input_initialized = FALSE
    /\ block_keys = FALSE
    /\ mouse_x = 0
    /\ mouse_y = 0
    /\ input_hooks = [t \in EventTypes |-> NullList]
    /\ char_binds = NullList
    /\ key_up_binds = NullList
    /\ key_down_binds = NullList
    /\ mouse_up_binds = NullList
    /\ mouse_down_binds = NullList
    /\ mouse_move_binds = NullList
    /\ pc = "idle"
    /\ call = NoCall
    /\ node = END
    /\ tmp = END
    /\ ids = <<>>
    /\ ret = TRUE
    /\ result = TRUE
    /\ event = NoEvent
    /\ entry = <<>>
    /\ invoked = <<>>
    /\ uaf = FALSE
    /\ lifecycle = "none"
    /\ leaked = 0

\* ------------------------------------------------------------ lifecycle
\* Lines 83-93: every list pointer is overwritten with a new list. The records
\* of a list that was there before are not freed.
CreateLists ==
    /\ input_hooks' = [t \in EventTypes |-> EmptyList]
    /\ char_binds' = EmptyList
    /\ key_up_binds' = EmptyList
    /\ key_down_binds' = EmptyList
    /\ mouse_up_binds' = EmptyList
    /\ mouse_down_binds' = EmptyList
    /\ mouse_move_binds' = EmptyList
    /\ leaked' = leaked + Allocated

\* input_initialize with a platform collaborator (input_platform_initialize)
\* that returns without calling into the library.
input_initialize ==
    \E window \in Windows :
        /\ Callable
        /\ IF window = "NULL"
           THEN UNCHANGED <<state, hookLists, keyLists, mouseLists>>
           ELSE /\ CreateLists
                /\ input_initialized' = TRUE
                /\ UNCHANGED <<block_keys, mouse_x, mouse_y, lifecycle>>
        /\ UNCHANGED walk

\* list_foreach_safe + list_remove + mem_free of every node, then list_destroy
input_cleanup_list(list) == NullList

\* Lines 119-143: every list is cleaned up and its pointer set to NULL.
DestroyLists ==
    /\ input_hooks' = [t \in EventTypes |->
            IF input_hooks[t].live THEN input_cleanup_list(input_hooks[t])
            ELSE input_hooks[t]]
    /\ char_binds' = input_cleanup_list(char_binds)
    /\ key_up_binds' = input_cleanup_list(key_up_binds)
    /\ key_down_binds' = input_cleanup_list(key_down_binds)
    /\ mouse_up_binds' = input_cleanup_list(mouse_up_binds)
    /\ mouse_down_binds' = input_cleanup_list(mouse_down_binds)
    /\ mouse_move_binds' = input_cleanup_list(mouse_move_binds)

\* input_shutdown with a platform collaborator (input_platform_shutdown) that
\* returns without calling into the library.
input_shutdown ==
    /\ Callable
    /\ IF ~input_initialized
       THEN UNCHANGED <<state, hookLists, keyLists, mouseLists>>
       ELSE /\ DestroyLists
            /\ input_initialized' = FALSE
            /\ UNCHANGED <<block_keys, mouse_x, mouse_y, lifecycle, leaked>>
    /\ UNCHANGED walk

\* ------------------------------------------------------------ hook store
list_push(list, rec) == [list EXCEPT !.nodes = Append(@, rec)]

input_add_hook ==
    \E event_id \in EventArgs, handler \in Handlers :
        /\ Callable
        /\ HeapUsed < MaxRecords
        /\ IF ~input_initialized \/ event_id >= NUM_INPUT_EVENTS
           THEN UNCHANGED <<input_hooks, walk>>
           ELSE IF ~input_hooks[event_id].live
           THEN /\ NullDeref([NoCall EXCEPT !.fn = "add_hook", !.type = event_id])
                /\ UNCHANGED input_hooks
           ELSE /\ input_hooks' = [input_hooks EXCEPT ![event_id] =
                        list_push(@, [handler |-> handler])]
                /\ UNCHANGED walk
        /\ UNCHANGED <<state, keyLists, mouseLists>>

\* RemoveHookKeep without the return after the first removal.
RemoveHookKeepAll(nodes, handler) ==
    {i \in DOMAIN nodes : nodes[i].handler # handler}

\* The positions of nodes that input_remove_hook leaves in the list: all but
\* the first one whose handler is the given one.
RemoveHookKeep(nodes, handler) ==
    LET hits == {i \in DOMAIN nodes : nodes[i].handler = handler}
    IN  IF hits = {} THEN DOMAIN nodes
        ELSE DOMAIN nodes \ {CHOOSE i \in hits : \A j \in hits : i <= j}

input_remove_hook ==
    \E event_id \in EventArgs, handler \in Handlers :
        LET c == [NoCall EXCEPT !.fn = "remove_hook", !.type = event_id,
                                !.handler = handler]
        IN  /\ Callable
            /\ IF ~input_initialized \/ event_id >= NUM_INPUT_EVENTS
               THEN /\ ReturnEarly(c, TRUE)
                    /\ UNCHANGED input_hooks
               ELSE IF ~input_hooks[event_id].live
               THEN /\ NullDeref(c)
                    /\ UNCHANGED input_hooks
               ELSE /\ input_hooks' = [input_hooks EXCEPT ![event_id].nodes =
                            Keep(@, RemoveHookKeep(@, handler))]
                    /\ ReturnRemoved(c, input_hooks[event_id].nodes)
            /\ UNCHANGED <<state, keyLists, mouseLists>>

\* ------------------------------------------------------------ state tracker
input_block_keys ==
    \E block \in BOOLEAN :
        /\ Callable
        /\ block_keys' = block
        /\ UNCHANGED <<input_initialized, mouse_x, mouse_y, lifecycle, leaked>>
        /\ UNCHANGED <<hookLists, keyLists, mouseLists>>
        /\ UNCHANGED walk

\* ------------------------------------------------------------ hook dispatch
\* list_empty answering that no list is empty.
list_empty_never(list) == FALSE

list_empty(list) == Len(list.nodes) = 0

\* Entering a dispatch loop over the nodes of a list: node = list_begin(list),
\* and for list_foreach_safe tmp = node->next.
EnterLoop(c, nodes, safe, ev) ==
    LET as == Iota(Len(nodes))
    IN  /\ pc' = "loop"
        /\ call' = c
        /\ ids' = as
        /\ entry' = nodes
        /\ node' = ListBegin(as)
        /\ tmp' = IF safe /\ Len(as) > 0 THEN NextOf(as, as[1]) ELSE END
        /\ ret' = TRUE
        /\ result' = TRUE
        /\ event' = ev
        /\ invoked' = <<>>
        /\ uaf' = FALSE

\* Reading node->next through an address of a freed record: the read yields
\* whatever the freed memory holds (any node of the list, or the list end),
\* or the process faults.
DanglingRead(as) ==
    /\ uaf' = TRUE
    /\ \/ /\ pc' = "crashed"
          /\ node' = node
       \/ /\ pc' = "loop"
          /\ node' \in Range(as) \cup {END}

\* node = node->next of list_foreach (lines 423, 462), evaluated after the
\* body; as are the addresses of the nodes left in the list.
ForeachAdvance(as) ==
    IF node \in Range(as)
    THEN /\ node' = NextOf(as, node)
         /\ pc' = "loop"
         /\ uaf' = uaf
    ELSE DanglingRead(as)

\* HookAfterHandler without the return on a veto: the loop goes on.
HookAfterHandlerNoReturn(ok, as) ==
    /\ ForeachAdvance(as)
    /\ result' = result

\* What the hook loop does once the handler of the current hook has
\* returned ok: return false on a veto, else go on with the next node.
HookAfterHandler(ok, as) ==
    IF ~ok
    THEN /\ pc' = "done"
         /\ result' = FALSE
         /\ node' = node
         /\ uaf' = uaf
    ELSE /\ ForeachAdvance(as)
         /\ result' = result

\* One iteration of list_foreach( list, node ) { if ( !hook->handler( &event ) )
\* return false; }. A removing handler calls input_remove_hook for the
\* dispatched event type and some handler.
HookForeach ==
    LET nodes == input_hooks[call.type].nodes
        hook == nodes[PosOf(node)]
    IN  /\ \E h \in (IF HandlerRemoves(hook.handler) THEN Handlers ELSE {"none"}) :
               LET keep == IF h = "none" THEN DOMAIN nodes
                           ELSE RemoveHookKeep(nodes, h)
               IN  /\ invoked' = Append(invoked,
                           [id |-> node, handler |-> hook.handler, event |-> event,
                            x |-> mouse_x, y |-> mouse_y, rm |-> h])
                   /\ input_hooks' = [input_hooks EXCEPT ![call.type].nodes = Keep(@, keep)]
                   /\ ids' = Keep(ids, keep)
                   /\ HookAfterHandler(HandlerReturns(hook.handler), Keep(ids, keep))
        /\ UNCHANGED <<state, keyLists, mouseLists>>
        /\ UNCHANGED <<call, tmp, ret, event, entry>>

KeyboardEvent(type, key) ==
    [built |-> TRUE, type |-> type, key |-> key, x |-> 0, y |-> 0,
     dx |-> 0, dy |-> 0, button |-> "MOUSE_NONE"]

input_handle_keyboard_event ==
    \E type \in EventArgs, key \in Keys :
        LET c == [NoCall EXCEPT !.fn = "keyboard_event", !.type = type, !.key = key]
        IN  /\ Callable
            /\ IF ~input_initialized \/ type >= NUM_INPUT_EVENTS
               THEN ReturnEarly(c, TRUE)
               ELSE IF ~input_hooks[type].live
               THEN NullDeref(c)
               ELSE IF list_empty(input_hooks[type])
               THEN ReturnEarly(c, TRUE)
               ELSE EnterLoop(c, input_hooks[type].nodes, FALSE, KeyboardEvent(type, key))
            /\ UNCHANGED <<state, hookLists, keyLists, mouseLists>>

keyboard_event_foreach ==
    /\ pc = "loop"
    /\ call.fn = "keyboard_event"
    /\ node # END
    /\ HookForeach

\* KeyboardResult without the test of block_keys.
KeyboardResultUnblocked(block) == TRUE

\* if ( block_keys ) return false; return true;
KeyboardResult(block) == ~block

keyboard_event_return ==
    /\ pc = "loop"
    /\ call.fn = "keyboard_event"
    /\ node = END
    /\ pc' = "done"
    /\ result' = KeyboardResult(block_keys)
    /\ UNCHANGED <<state, hookLists, keyLists, mouseLists>>
    /\ UNCHANGED <<call, node, tmp, ids, ret, event, entry, invoked, uaf>>

\* MouseEvent with the deltas taken after the cursor position was stored.
MouseEventAfterUpdate(type, x, y, button) ==
    [built |-> TRUE, type |-> type, key |-> 0, x |-> x, y |-> y,
     dx |-> 0, dy |-> 0, button |-> button]

\* The value the fields event.mouse.dx / dy hold once the difference d has
\* been stored in them.
DeltaField(d) == d

MouseEvent(type, x, y, button) ==
    [built |-> TRUE, type |-> type, key |-> 0, x |-> x, y |-> y,
     dx |-> DeltaField(x - mouse_x), dy |-> DeltaField(y - mouse_y),
     button |-> button]

\* input_handle_mouse_event storing the cursor position before it looks at
\* the hook list.
input_handle_mouse_event_eager ==
    \E type \in EventArgs, x \in Coords, y \in Coords, button \in Buttons :
        LET c == [NoCall EXCEPT !.fn = "mouse_event", !.type = type,
                                !.x = x, !.y = y, !.button = button,
                                !.px = mouse_x, !.py = mouse_y]
        IN  /\ Callable
            /\ IF ~input_initialized \/ type >= NUM_INPUT_EVENTS
               THEN /\ ReturnEarly(c, TRUE)
                    /\ UNCHANGED <<mouse_x, mouse_y>>
               ELSE /\ mouse_x' = x
                    /\ mouse_y' = y
                    /\ IF ~input_hooks[type].live
                       THEN NullDeref(c)
                       ELSE IF list_empty(input_hooks[type])
                       THEN ReturnEarly(c, TRUE)
                       ELSE EnterLoop(c, input_hooks[type].nodes, FALSE,
                                      MouseEvent(type, x, y, button))
            /\ UNCHANGED <<input_initialized, block_keys, lifecycle, leaked>>
            /\ UNCHANGED <<hookLists, keyLists, mouseLists>>

input_handle_mouse_event ==
    \E type \in EventArgs, x \in Coords, y \in Coords, button \in Buttons :
        LET c == [NoCall EXCEPT !.fn = "mouse_event", !.type = type,
                                !.x = x, !.y = y, !.button = button,
                                !.px = mouse_x, !.py = mouse_y]
        IN  /\ Callable
            /\ IF ~input_initialized \/ type >= NUM_INPUT_EVENTS
               THEN /\ ReturnEarly(c, TRUE)
                    /\ UNCHANGED <<mouse_x, mouse_y>>
               ELSE IF ~input_hooks[type].live
               THEN /\ NullDeref(c)
                    /\ UNCHANGED <<mouse_x, mouse_y>>
               ELSE IF list_empty(input_hooks[type])
               THEN /\ ReturnEarly(c, TRUE)
                    /\ UNCHANGED <<mouse_x, mouse_y>>
               ELSE /\ EnterLoop(c, input_hooks[type].nodes, FALSE,
                                 MouseEvent(type, x, y, button))
                    /\ mouse_x' = x
                    /\ mouse_y' = y
            /\ UNCHANGED <<input_initialized, block_keys, lifecycle, leaked>>
            /\ UNCHANGED <<hookLists, keyLists, mouseLists>>

mouse_event_foreach ==
    /\ pc = "loop"
    /\ call.fn = "mouse_event"
    /\ node # END
    /\ HookForeach

mouse_event_return ==
    /\ pc = "loop"
    /\ call.fn = "mouse_event"
    /\ node = END
    /\ pc' = "done"
    /\ result' = TRUE
    /\ UNCHANGED <<state, hookLists, keyLists, mouseLists>>
    /\ UNCHANGED <<call, node, tmp, ids, ret, event, entry, invoked, uaf>>

\* ------------------------------------------------------------ key bind store
KeyBindList(type) ==
    CASE type = "BIND_CHAR" -> char_binds
      [] type = "BIND_KEYUP" -> key_up_binds
      [] type = "BIND_KEYDOWN" -> key_down_binds

\* The three key bind lists with the nodes of the list of the given type replaced.
SetKeyBindNodes(type, nodes) ==
    /\ char_binds' = IF type = "BIND_CHAR"
                     THEN [char_binds EXCEPT !.nodes = nodes] ELSE char_binds
    /\ key_up_binds' = IF type = "BIND_KEYUP"
                       THEN [key_up_binds EXCEPT !.nodes = nodes] ELSE key_up_binds
    /\ key_down_binds' = IF type = "BIND_KEYDOWN"
                         THEN [key_down_binds EXCEPT !.nodes = nodes] ELSE key_down_binds

\* The call returns the handle of the new record: its address, which is its
\* position in the list, or NULL.
input_add_key_bind(key, func, data, type) ==
    LET c == [NoCall EXCEPT !.fn = "add_key_bind", !.key = key]
    IN  /\ Callable
        /\ IF ~input_initialized \/ ~KeyBindList(type).live
           THEN /\ UNCHANGED keyLists
                /\ ReturnEarly(c, NULL)
           ELSE /\ HeapUsed < MaxRecords
                /\ SetKeyBindNodes(type, Append(KeyBindList(type).nodes,
                       [type |-> type, key |-> key, handler |-> func, userdata |-> data]))
                /\ ReturnEarly(c, Len(KeyBindList(type).nodes) + 1)
        /\ UNCHANGED <<state, hookLists, mouseLists>>

input_add_char_bind ==
    \E key \in Keys, func \in Handlers, data \in Userdata :
        input_add_key_bind(key, func, data, "BIND_CHAR")

input_add_key_up_bind ==
    \E key \in Keys, func \in Handlers, data \in Userdata :
        input_add_key_bind(key, func, data, "BIND_KEYUP")

input_add_key_down_bind ==
    \E key \in Keys, func \in Handlers, data \in Userdata :
        input_add_key_bind(key, func, data, "BIND_KEYDOWN")

\* RemoveKeyBindKeep stopping at the first node it removes.
RemoveKeyBindKeepFirst(nodes, key, func) ==
    LET hits == {i \in DOMAIN nodes : nodes[i].key = key /\ nodes[i].handler = func}
    IN  IF hits = {} THEN DOMAIN nodes
        ELSE DOMAIN nodes \ {CHOOSE i \in hits : \A j \in hits : i <= j}

\* The positions input_remove_key_bind_from_list leaves in the list: it
\* removes every node with bind->key == key && bind->handler == func.
RemoveKeyBindKeep(nodes, key, func) ==
    {i \in DOMAIN nodes : ~(nodes[i].key = key /\ nodes[i].handler = func)}

input_remove_key_bind_from_list(key, func, type) ==
    LET c == [NoCall EXCEPT !.fn = "remove_key_bind", !.key = key,
                            !.handler = func, !.list = type]
    IN  /\ Callable
        /\ IF ~input_initialized \/ ~KeyBindList(type).live
           THEN /\ UNCHANGED keyLists
                /\ ReturnEarly(c, TRUE)
           ELSE /\ SetKeyBindNodes(type, Keep(KeyBindList(type).nodes,
                        RemoveKeyBindKeep(KeyBindList(type).nodes, key, func)))
                /\ ReturnRemoved(c, KeyBindList(type).nodes)
        /\ UNCHANGED <<state, hookLists, mouseLists>>

input_remove_char_bind ==
    \E key \in Keys, func \in Handlers :
        input_remove_key_bind_from_list(key, func, "BIND_CHAR")

input_remove_key_up_bind ==
    \E key \in Keys, func \in Handlers :
        input_remove_key_bind_from_list(key, func, "BIND_KEYUP")

input_remove_key_down_bind ==
    \E key \in Keys, func \in Handlers :
        input_remove_key_bind_from_list(key, func, "BIND_KEYDOWN")

KeyBindTypes == {"BIND_KEYUP", "BIND_KEYDOWN", "BIND_CHAR"}

\* input_remove_key_bind( bind ), the handle bind being the i-th record of the
\* list of the given type.
input_remove_key_bind(type, i) ==
    LET bind == KeyBindList(type).nodes[i]
    IN  input_remove_key_bind_from_list(bind.key, bind.handler, bind.type)

remove_key_bind ==
    \E type \in KeyBindTypes :
        \E i \in DOMAIN KeyBindList(type).nodes :
            input_remove_key_bind(type, i)

\* ------------------------------------------------------------ key bind dispatch
\* node = tmp, tmp = node->next of list_foreach_safe, evaluated after the
\* body; as are the addresses of the nodes left in the list.
SafeAdvance(as) ==
    IF tmp = END
    THEN /\ node' = END
         /\ tmp' = END
         /\ pc' = "loop"
         /\ uaf' = uaf
    ELSE IF tmp \in Range(as)
    THEN /\ node' = tmp
         /\ tmp' = NextOf(as, tmp)
         /\ pc' = "loop"
         /\ uaf' = uaf
    ELSE /\ DanglingRead(as)
         /\ tmp' \in Range(as) \cup {END}

CharBindMatches(bind, key) == TRUE

\* KeyDownBindMatches without the comparison of the key.
KeyDownBindMatchesAnyKey(bind, key) == TRUE

KeyDownBindMatches(bind, key) == key = bind.key
KeyUpBindMatches(bind, key) == key = bind.key

\* BindRet storing the result of the last handler instead of accumulating.
BindRetLast(r, ok) == ok

\* if ( !bind->handler( ... ) ) ret = false;
BindRet(r, ok) == IF ~ok THEN FALSE ELSE r

\* The body of the list_foreach_safe loop of a key bind dispatch function for
\* the current node. A removing handler calls input_remove_key_bind with the
\* handle of some bind of the list.
KeyBindForeach(type, match) ==
    LET nodes == KeyBindList(type).nodes
        bind == nodes[PosOf(node)]
    IN  /\ IF ~match
           THEN /\ UNCHANGED <<keyLists, ids, invoked, ret>>
                /\ SafeAdvance(ids)
           ELSE /\ ret' = BindRet(ret, HandlerReturns(bind.handler))
                /\ \E target \in (IF HandlerRemoves(bind.handler)
                                  THEN DOMAIN nodes ELSE {0}) :
                       LET keep == IF target = 0 THEN DOMAIN nodes
                                   ELSE RemoveKeyBindKeep(nodes, nodes[target].key,
                                                          nodes[target].handler)
                       IN  /\ invoked' = Append(invoked,
                                   [id |-> node, handler |-> bind.handler,
                                    key |-> call.key, userdata |-> bind.userdata,
                                    rm |-> IF target = 0 THEN END ELSE ids[target]])
                           /\ SetKeyBindNodes(type, Keep(nodes, keep))
                           /\ ids' = Keep(ids, keep)
                           /\ SafeAdvance(Keep(ids, keep))
        /\ UNCHANGED <<state, hookLists, mouseLists>>
        /\ UNCHANGED <<call, result, event, entry>>

KeyBindCall(fn, key) == [NoCall EXCEPT !.fn = fn, !.key = key]

\* KeyBindEnter without the test of input_initialized.
KeyBindEnterUnchecked(fn, key, list) ==
    /\ Callable
    /\ IF ~list.live
       THEN NullDeref(KeyBindCall(fn, key))
       ELSE EnterLoop(KeyBindCall(fn, key), list.nodes, TRUE, NoEvent)
    /\ UNCHANGED <<state, hookLists, keyLists, mouseLists>>

\* The entry of a key bind dispatch function, up to the first loop test.
KeyBindEnter(fn, key, list) ==
    /\ Callable
    /\ IF ~input_initialized
       THEN ReturnEarly(KeyBindCall(fn, key), TRUE)
       ELSE IF ~list.live
       THEN NullDeref(KeyBindCall(fn, key))
       ELSE EnterLoop(KeyBindCall(fn, key), list.nodes, TRUE, NoEvent)
    /\ UNCHANGED <<state, hookLists, keyLists, mouseLists>>

InLoop(fn) == pc = "loop" /\ call.fn = fn

\* BindReturn applying the keyboard block flag as input_handle_keyboard_event does.
BindReturnBlocked ==
    /\ node = END
    /\ pc' = "done"
    /\ result' = (ret /\ ~block_keys)
    /\ UNCHANGED <<state, hookLists, keyLists, mouseLists>>
    /\ UNCHANGED <<call, node, tmp, ids, ret, event, entry, invoked, uaf>>

\* return ret;
BindReturn ==
    /\ node = END
    /\ pc' = "done"
    /\ result' = ret
    /\ UNCHANGED <<state, hookLists, keyLists, mouseLists>>
    /\ UNCHANGED <<call, node, tmp, ids, ret, event, entry, invoked, uaf>>

input_handle_char_bind ==
    \E key \in Keys : KeyBindEnter("char_bind", key, char_binds)

char_bind_foreach ==
    /\ InLoop("char_bind")
    /\ node # END
    /\ KeyBindForeach("BIND_CHAR",
           CharBindMatches(char_binds.nodes[PosOf(node)], call.key))

char_bind_return == InLoop("char_bind") /\ BindReturn

input_handle_key_down_bind ==
    \E key \in Keys : KeyBindEnter("key_down_bind", key, key_down_binds)

key_down_bind_foreach ==
    /\ InLoop("key_down_bind")
    /\ node # END
    /\ KeyBindForeach("BIND_KEYDOWN",
           KeyDownBindMatches(key_down_binds.nodes[PosOf(node)], call.key))

key_down_bind_return == InLoop("key_down_bind") /\ BindReturn

input_handle_key_up_bind ==
    \E key \in Keys : KeyBindEnter("key_up_bind", key, key_up_binds)

key_up_bind_foreach ==
    /\ InLoop("key_up_bind")
    /\ node # END
    /\ KeyBindForeach("BIND_KEYUP",
           KeyUpBindMatches(key_up_binds.nodes[PosOf(node)], call.key))

key_up_bind_return == InLoop("key_up_bind") /\ BindReturn

NextKeyBinds ==
    \/ input_add_char_bind
    \/ input_add_key_up_bind
    \/ input_add_key_down_bind
    \/ input_remove_char_bind
    \/ input_remove_key_up_bind
    \/ input_remove_key_down_bind
    \/ remove_key_bind
    \/ input_handle_char_bind
    \/ char_bind_foreach
    \/ char_bind_return
    \/ input_handle_key_down_bind
    \/ key_down_bind_foreach
    \/ key_down_bind_return
    \/ input_handle_key_up_bind
    \/ key_up_bind_foreach
    \/ key_up_bind_return

SpecKeyBinds == Init /\ [][input_initialize \/ input_shutdown \/ NextKeyBinds \/ Resume]_vars

\* ------------------------------------------------------------ key bind filter
\* The userdata pointers of the key bind filter specification.
KeyBindData == Userdata \cup {"data2"}

\* The application registering key binds whose handlers leave the bind lists
\* alone, through input_add_char_bind / input_add_key_up_bind /
\* input_add_key_down_bind.
add_key_bind ==
    \E type \in KeyBindTypes, key \in Keys, data \in KeyBindData :
        \E func \in {h \in Handlers : ~HandlerRemoves(h)} :
            input_add_key_bind(key, func, data, type)

NextKeyFilter ==
    \/ add_key_bind
    \/ remove_key_bind
    \/ input_handle_char_bind
    \/ char_bind_foreach
    \/ char_bind_return
    \/ input_handle_key_down_bind
    \/ key_down_bind_foreach
    \/ key_down_bind_return
    \/ input_handle_key_up_bind
    \/ key_up_bind_foreach
    \/ key_up_bind_return
    \/ input_initialize
    \/ input_shutdown
    \/ Resume

SpecKeyFilter == Init /\ [][NextKeyFilter]_vars

\* ------------------------------------------------------------ mouse bind store
MouseBindList(type) ==
    CASE type = "BIND_MOVE" -> mouse_move_binds
      [] type = "BIND_BTNUP" -> mouse_up_binds
      [] type = "BIND_BTNDOWN" -> mouse_down_binds

SetMouseBindNodes(type, nodes) ==
    /\ mouse_move_binds' = IF type = "BIND_MOVE"
                           THEN [mouse_move_binds EXCEPT !.nodes = nodes]
                           ELSE mouse_move_binds
    /\ mouse_up_binds' = IF type = "BIND_BTNUP"
                         THEN [mouse_up_binds EXCEPT !.nodes = nodes]
                         ELSE mouse_up_binds
    /\ mouse_down_binds' = IF type = "BIND_BTNDOWN"
                           THEN [mouse_down_binds EXCEPT !.nodes = nodes]
                           ELSE mouse_down_binds

input_add_mouse_bind(button, area, func, data, type) ==
    LET c == [NoCall EXCEPT !.fn = "add_mouse_bind", !.button = button]
    IN  /\ Callable
        /\ IF ~input_initialized \/ ~MouseBindList(type).live
           THEN /\ UNCHANGED mouseLists
                /\ ReturnEarly(c, NULL)
           ELSE /\ HeapUsed < MaxRecords
                /\ SetMouseBindNodes(type, Append(MouseBindList(type).nodes,
                       [type |-> type, bounds |-> area, button |-> button,
                        handler |-> func, userdata |-> data]))
                /\ ReturnEarly(c, Len(MouseBindList(type).nodes) + 1)
        /\ UNCHANGED <<state, hookLists, keyLists>>

input_add_mouse_move_bind ==
    \E area \in Rects, func \in Handlers, data \in Userdata :
        input_add_mouse_bind("MOUSE_NONE", area, func, data, "BIND_MOVE")

input_add_mousebtn_up_bind ==
    \E button \in Buttons, area \in Rects, func \in Handlers, data \in Userdata :
        input_add_mouse_bind(button, area, func, data, "BIND_BTNUP")

input_add_mousebtn_down_bind ==
    \E button \in Buttons, area \in Rects, func \in Handlers, data \in Userdata :
        input_add_mouse_bind(button, area, func, data, "BIND_BTNDOWN")

\* RemoveMouseBindKeep removing the nodes whose handler is the given one.
RemoveMouseBindKeepEqual(nodes, button, func) ==
    {i \in DOMAIN nodes : ~(nodes[i].button = button /\ nodes[i].handler = func)}

\* The positions input_remove_mouse_bind_from_list leaves in the list: it
\* removes every node with bind->button == button && bind->handler != func.
RemoveMouseBindKeep(nodes, button, func) ==
    {i \in DOMAIN nodes : ~(nodes[i].button = button /\ nodes[i].handler # func)}

input_remove_mouse_bind_from_list(button, func, type) ==
    LET c == [NoCall EXCEPT !.fn = "remove_mouse_bind", !.button = button,
                            !.handler = func, !.list = type]
    IN  /\ Callable
        /\ IF ~input_initialized \/ ~MouseBindList(type).live
           THEN /\ UNCHANGED mouseLists
                /\ ReturnEarly(c, TRUE)
           ELSE /\ SetMouseBindNodes(type, Keep(MouseBindList(type).nodes,
                        RemoveMouseBindKeep(MouseBindList(type).nodes, button, func)))
                /\ ReturnRemoved(c, MouseBindList(type).nodes)
        /\ UNCHANGED <<state, hookLists, keyLists>>

input_remove_mouse_move_bind ==
    \E func \in Handlers :
        input_remove_mouse_bind_from_list("MOUSE_NONE", func, "BIND_MOVE")

input_remove_mousebtn_up_bind ==
    \E button \in Buttons, func \in Handlers :
        input_remove_mouse_bind_from_list(button, func, "BIND_BTNUP")

input_remove_mousebtn_down_bind ==
    \E button \in Buttons, func \in Handlers :
        input_remove_mouse_bind_from_list(button, func, "BIND_BTNDOWN")

MouseBindTypes == {"BIND_BTNUP", "BIND_BTNDOWN", "BIND_MOVE"}

\* input_remove_mouse_bind( bind ), the handle bind being the i-th record of
\* the list of the given type.
input_remove_mouse_bind(type, i) ==
    LET bind == MouseBindList(type).nodes[i]
    IN  input_remove_mouse_bind_from_list(bind.button, bind.handler, bind.type)

remove_mouse_bind ==
    \E type \in MouseBindTypes :
        \E i \in DOMAIN MouseBindList(type).nodes :
            input_remove_mouse_bind(type, i)

\* ------------------------------------------------------------ mouse bind dispatch
\* Containment is closed on the edges of the rectangle.
rect_is_point_in(r, x, y) ==
    /\ r.left <= x
    /\ x <= r.right
    /\ r.top <= y
    /\ y <= r.bottom

\* MouseMoveBindMatches comparing the stored button as the button binds do.
MouseMoveBindMatchesButton(bind, button, x, y) ==
    bind.button = button /\ rect_is_point_in(bind.bounds, x, y)

MouseMoveBindMatches(bind, button, x, y) == rect_is_point_in(bind.bounds, x, y)
MouseUpBindMatches(bind, button, x, y) ==
    bind.button = button /\ rect_is_point_in(bind.bounds, x, y)
MouseDownBindMatches(bind, button, x, y) ==
    bind.button = button /\ rect_is_point_in(bind.bounds, x, y)

\* The body of the list_foreach_safe loop of a mouse bind dispatch function
\* for the current node. A removing handler calls input_remove_mouse_bind
\* with the handle of some bind of the list.
MouseBindForeach(type, match) ==
    LET nodes == MouseBindList(type).nodes
        bind == nodes[PosOf(node)]
    IN  /\ IF ~match
           THEN /\ UNCHANGED <<mouseLists, ids, invoked, ret>>
                /\ SafeAdvance(ids)
           ELSE /\ ret' = BindRet(ret, HandlerReturns(bind.handler))
                /\ \E target \in (IF HandlerRemoves(bind.handler)
                                  THEN DOMAIN nodes ELSE {0}) :
                       LET keep == IF target = 0 THEN DOMAIN nodes
                                   ELSE RemoveMouseBindKeep(nodes, nodes[target].button,
                                                            nodes[target].handler)
                       IN  /\ invoked' = Append(invoked,
                                   [id |-> node, handler |-> bind.handler,
                                    button |-> call.button, x |-> call.x, y |-> call.y,
                                    userdata |-> bind.userdata,
                                    rm |-> IF target = 0 THEN END ELSE ids[target]])
                           /\ SetMouseBindNodes(type, Keep(nodes, keep))
                           /\ ids' = Keep(ids, keep)
                           /\ SafeAdvance(Keep(ids, keep))
        /\ UNCHANGED <<state, hookLists, keyLists>>
        /\ UNCHANGED <<call, result, event, entry>>

MouseBindCall(fn, button, x, y) ==
    [NoCall EXCEPT !.fn = fn, !.button = button, !.x = x, !.y = y]

MouseBindEnter(fn, button, x, y, list) ==
    /\ Callable
    /\ IF ~input_initialized
       THEN ReturnEarly(MouseBindCall(fn, button, x, y), TRUE)
       ELSE IF ~list.live
       THEN NullDeref(MouseBindCall(fn, button, x, y))
       ELSE EnterLoop(MouseBindCall(fn, button, x, y), list.nodes, TRUE, NoEvent)
    /\ UNCHANGED <<state, hookLists, keyLists, mouseLists>>

input_handle_mouse_move_bind ==
    \E p \in Points :
        MouseBindEnter("mouse_move_bind", "MOUSE_NONE", p[1], p[2], mouse_move_binds)

mouse_move_bind_foreach ==
    /\ InLoop("mouse_move_bind")
    /\ node # END
    /\ MouseBindForeach("BIND_MOVE",
           MouseMoveBindMatches(mouse_move_binds.nodes[PosOf(node)],
                                call.button, call.x, call.y))

mouse_move_bind_return == InLoop("mouse_move_bind") /\ BindReturn

input_handle_mouse_up_bind ==
    \E button \in Buttons, p \in Points :
        MouseBindEnter("mouse_up_bind", button, p[1], p[2], mouse_up_binds)

mouse_up_bind_foreach ==
    /\ InLoop("mouse_up_bind")
    /\ node # END
    /\ MouseBindForeach("BIND_BTNUP",
           MouseUpBindMatches(mouse_up_binds.nodes[PosOf(node)],
                              call.button, call.x, call.y))

mouse_up_bind_return == InLoop("mouse_up_bind") /\ BindReturn

input_handle_mouse_down_bind ==
    \E button \in Buttons, p \in Points :
        MouseBindEnter("mouse_down_bind", button, p[1], p[2], mouse_down_binds)

mouse_down_bind_foreach ==
    /\ InLoop("mouse_down_bind")
    /\ node # END
    /\ MouseBindForeach("BIND_BTNDOWN",
           MouseDownBindMatches(mouse_down_binds.nodes[PosOf(node)],
                                call.button, call.x, call.y))

mouse_down_bind_return == InLoop("mouse_down_bind") /\ BindReturn

NextMouseBinds ==
    \/ input_add_mouse_move_bind
    \/ input_add_mousebtn_up_bind
    \/ input_add_mousebtn_down_bind
    \/ input_remove_mouse_move_bind
    \/ input_remove_mousebtn_up_bind
    \/ input_remove_mousebtn_down_bind
    \/ remove_mouse_bind
    \/ input_handle_mouse_move_bind
    \/ mouse_move_bind_foreach
    \/ mouse_move_bind_return
    \/ input_handle_mouse_up_bind
    \/ mouse_up_bind_foreach
    \/ mouse_up_bind_return
    \/ input_handle_mouse_down_bind
    \/ mouse_down_bind_foreach
    \/ mouse_down_bind_return

SpecMouseBinds == Init /\ [][input_initialize \/ input_shutdown \/ NextMouseBinds \/ Resume]_vars

\* ------------------------------------------------------------ mouse bind areas
\* The areas of the mouse bind area specification: the area of Rects and one
\* next to it, holding the third of the Points only.
MouseAreas == Rects \cup {[left |-> 3, top |-> 0, right |-> 4, bottom |-> 2]}

\* The application registering mouse binds whose handlers leave the bind lists
\* alone, through input_add_mouse_move_bind / input_add_mousebtn_up_bind /
\* input_add_mousebtn_down_bind; it has binds of one kind at a time.
add_mouse_bind ==
    \E type \in MouseBindTypes, area \in MouseAreas, data \in Userdata :
        \E func \in {h \in Handlers : ~HandlerRemoves(h)} :
            \E button \in (IF type = "BIND_MOVE" THEN {"MOUSE_NONE"} ELSE Buttons) :
                /\ \A other \in MouseBindTypes \ {type} :
                       MouseBindList(other).nodes = <<>>
                /\ input_add_mouse_bind(button, area, func, data, type)

\* The handles an application may hold of the binds of a list: NULL (0) and
\* the positions of the records of the list.
MouseBindHandles(type) == {0} \cup DOMAIN MouseBindList(type).nodes

\* A setter of a field of the bind with handle i of the list of the given
\* type: if ( bind == NULL ) return; bind->field = value;
SetMouseBindField(type, i, rec) ==
    /\ Callable
    /\ IF i = 0
       THEN UNCHANGED mouseLists
       ELSE SetMouseBindNodes(type, [MouseBindList(type).nodes EXCEPT ![i] = rec])
    /\ UNCHANGED <<state, hookLists, keyLists, walk>>

input_set_mousebind_button ==
    \E type \in MouseBindTypes, button \in Buttons :
        \E i \in MouseBindHandles(type) :
            SetMouseBindField(type, i,
                [MouseBindList(type).nodes[i] EXCEPT !.button = button])

input_set_mousebind_rect ==
    \E type \in MouseBindTypes, area \in MouseAreas :
        \E i \in MouseBindHandles(type) :
            SetMouseBindField(type, i,
                [MouseBindList(type).nodes[i] EXCEPT !.bounds = area])

input_set_mousebind_func ==
    \E type \in MouseBindTypes, func \in {h \in Handlers : ~HandlerRemoves(h)} :
        \E i \in MouseBindHandles(type) :
            SetMouseBindField(type, i,
                [MouseBindList(type).nodes[i] EXCEPT !.handler = func])

input_set_mousebind_param ==
    \E type \in MouseBindTypes, data \in Userdata :
        \E i \in MouseBindHandles(type) :
            SetMouseBindField(type, i,
                [MouseBindList(type).nodes[i] EXCEPT !.userdata = data])

NextMouseArea ==
    \/ add_mouse_bind
    \/ remove_mouse_bind
    \/ input_set_mousebind_button
    \/ input_set_mousebind_rect
    \/ input_set_mousebind_func
    \/ input_set_mousebind_param
    \/ input_handle_mouse_move_bind
    \/ mouse_move_bind_foreach
    \/ mouse_move_bind_return
    \/ input_handle_mouse_up_bind
    \/ mouse_up_bind_foreach
    \/ mouse_up_bind_return
    \/ input_handle_mouse_down_bind
    \/ mouse_down_bind_foreach
    \/ mouse_down_bind_return
    \/ input_initialize
    \/ input_shutdown
    \/ Resume

SpecMouseArea == Init /\ [][NextMouseArea]_vars

\* ------------------------------------------------------------ specifications
\* The hook store, the state tracker and the two hook dispatch entry points.
NextHooks ==
    \/ input_initialize
    \/ input_shutdown
    \/ input_add_hook
    \/ input_remove_hook
    \/ input_block_keys
    \/ input_handle_keyboard_event
    \/ keyboard_event_foreach
    \/ keyboard_event_return
    \/ input_handle_mouse_event
    \/ mouse_event_foreach
    \/ mouse_event_return
    \/ Resume

SpecHooks == Init /\ [][NextHooks]_vars

KeyBindsUnused ==
    Len(char_binds.nodes) + Len(key_up_binds.nodes) + Len(key_down_binds.nodes) = 0

MouseBindsUnused ==
    Len(mouse_up_binds.nodes) + Len(mouse_down_binds.nodes)
        + Len(mouse_move_binds.nodes) = 0

\* The bind stores and the six bind dispatch entry points, for an application
\* that registers key binds or mouse binds (the two families share no list).
NextBinds ==
    \/ MouseBindsUnused /\ remove_key_bind
    \/ KeyBindsUnused /\ remove_mouse_bind
    \/ MouseBindsUnused /\ input_add_char_bind
    \/ MouseBindsUnused /\ input_add_key_up_bind
    \/ MouseBindsUnused /\ input_add_key_down_bind
    \/ MouseBindsUnused /\ input_remove_char_bind
    \/ MouseBindsUnused /\ input_remove_key_up_bind
    \/ MouseBindsUnused /\ input_remove_key_down_bind
    \/ MouseBindsUnused /\ input_handle_char_bind
    \/ MouseBindsUnused /\ char_bind_foreach
    \/ MouseBindsUnused /\ char_bind_return
    \/ MouseBindsUnused /\ input_handle_key_down_bind
    \/ MouseBindsUnused /\ key_down_bind_foreach
    \/ MouseBindsUnused /\ key_down_bind_return
    \/ MouseBindsUnused /\ input_handle_key_up_bind
    \/ MouseBindsUnused /\ key_up_bind_foreach
    \/ MouseBindsUnused /\ key_up_bind_return
    \/ KeyBindsUnused /\ input_add_mouse_move_bind
    \/ KeyBindsUnused /\ input_add_mousebtn_up_bind
    \/ KeyBindsUnused /\ input_add_mousebtn_down_bind
    \/ KeyBindsUnused /\ input_remove_mouse_move_bind
    \/ KeyBindsUnused /\ input_remove_mousebtn_up_bind
    \/ KeyBindsUnused /\ input_remove_mousebtn_down_bind
    \/ KeyBindsUnused /\ input_handle_mouse_move_bind
    \/ KeyBindsUnused /\ mouse_move_bind_foreach
    \/ KeyBindsUnused /\ mouse_move_bind_return
    \/ KeyBindsUnused /\ input_handle_mouse_up_bind
    \/ KeyBindsUnused /\ mouse_up_bind_foreach
    \/ KeyBindsUnused /\ mouse_up_bind_return
    \/ KeyBindsUnused /\ input_handle_mouse_down_bind
    \/ KeyBindsUnused /\ mouse_down_bind_foreach
    \/ KeyBindsUnused /\ mouse_down_bind_return
    \/ input_initialize
    \/ input_shutdown
    \/ Resume

SpecBinds == Init /\ [][NextBinds]_vars

\* ------------------------------------------------------------ lifecycle steps
\* input_initialize and input_shutdown call the platform collaborator before
\* they write input_initialized. The collaborator (window system code) may
\* call into the library before it returns: the two functions are modelled in
\* two steps each, with the variable lifecycle naming the platform call that
\* is running in between.

\* input_initialize up to the call of input_platform_initialize( window ).
input_initialize_enter ==
    \E window \in Windows :
        /\ Callable
        /\ lifecycle = "none"
        /\ IF window = "NULL"
           THEN UNCHANGED <<state, hookLists, keyLists, mouseLists>>
           ELSE /\ CreateLists
                /\ lifecycle' = "input_platform_initialize"
                /\ UNCHANGED <<input_initialized, block_keys, mouse_x, mouse_y>>
        /\ UNCHANGED walk

\* input_platform_initialize has returned: input_initialized = true;
input_initialize_leave ==
    /\ Callable
    /\ lifecycle = "input_platform_initialize"
    /\ input_initialized' = TRUE
    /\ lifecycle' = "none"
    /\ UNCHANGED <<block_keys, mouse_x, mouse_y, leaked>>
    /\ UNCHANGED <<hookLists, keyLists, mouseLists, walk>>

\* input_shutdown up to the call of input_platform_shutdown().
input_shutdown_enter ==
    /\ Callable
    /\ lifecycle = "none"
    /\ IF ~input_initialized
       THEN UNCHANGED <<state, hookLists, keyLists, mouseLists>>
       ELSE /\ DestroyLists
            /\ lifecycle' = "input_platform_shutdown"
            /\ UNCHANGED <<input_initialized, block_keys, mouse_x, mouse_y, leaked>>
    /\ UNCHANGED walk

\* input_platform_shutdown has returned: input_initialized = false;
input_shutdown_leave ==
    /\ Callable
    /\ lifecycle = "input_platform_shutdown"
    /\ input_initialized' = FALSE
    /\ lifecycle' = "none"
    /\ UNCHANGED <<block_keys, mouse_x, mouse_y, leaked>>
    /\ UNCHANGED <<hookLists, keyLists, mouseLists, walk>>

\* Records on the heap at the same time in the lifecycle specification.
MaxLifecycleRecords == 1

HeapSmall == HeapUsed < MaxLifecycleRecords

\* Every function of the library, called by the application or, while a
\* platform call of the lifecycle is running, by the platform collaborator.
NextLifecycle ==
    \/ input_initialize_enter
    \/ input_initialize_leave
    \/ input_shutdown_enter
    \/ input_shutdown_leave
    \/ HeapSmall /\ input_add_hook
    \/ HeapSmall /\ input_add_char_bind
    \/ HeapSmall /\ input_add_key_up_bind
    \/ HeapSmall /\ input_add_key_down_bind
    \/ HeapSmall /\ input_add_mouse_move_bind
    \/ HeapSmall /\ input_add_mousebtn_up_bind
    \/ HeapSmall /\ input_add_mousebtn_down_bind
    \/ input_remove_hook
    \/ input_remove_char_bind
    \/ input_remove_key_up_bind
    \/ input_remove_key_down_bind
    \/ remove_key_bind
    \/ input_remove_mouse_move_bind
    \/ input_remove_mousebtn_up_bind
    \/ input_remove_mousebtn_down_bind
    \/ remove_mouse_bind
    \/ input_handle_keyboard_event
    \/ keyboard_event_foreach
    \/ keyboard_event_return
    \/ input_handle_mouse_event
    \/ mouse_event_foreach
    \/ mouse_event_return
    \/ input_handle_char_bind
    \/ char_bind_foreach
    \/ char_bind_return
    \/ input_handle_key_down_bind
    \/ key_down_bind_foreach
    \/ key_down_bind_return
    \/ input_handle_key_up_bind
    \/ key_up_bind_foreach
    \/ key_up_bind_return
    \/ input_handle_mouse_move_bind
    \/ mouse_move_bind_foreach
    \/ mouse_move_bind_return
    \/ input_handle_mouse_up_bind
    \/ mouse_up_bind_foreach
    \/ mouse_up_bind_return
    \/ input_handle_mouse_down_bind
    \/ mouse_down_bind_foreach
    \/ mouse_down_bind_return
    \/ Resume

SpecLifecycle == Init /\ [][NextLifecycle]_vars

\* ------------------------------------------------------------ keyboard block
\* The number of lists that hold a record.
ListsInUse ==
    Cardinality({t \in EventTypes : input_hooks[t].nodes # <<>>})
        + Cardinality({type \in KeyBindTypes : KeyBindList(type).nodes # <<>>})
        + Cardinality({type \in MouseBindTypes : MouseBindList(type).nodes # <<>>})

OneListInUse == ListsInUse <= 1

\* The records the application of this section registers at most.
MaxBlockRecords == 2

HeapBlock == HeapUsed < MaxBlockRecords

HooksUnused == \A t \in EventTypes : input_hooks[t].nodes = <<>>

\* The keyboard block flag next to the mouse event dispatch and the six bind
\* dispatch functions, for an application that initializes the library once
\* and registers its records in one list; the dispatch functions of the
\* other lists are not called while that list holds a record.
NextBlock ==
    \/ input_block_keys
    \/ HeapBlock /\ input_add_hook /\ OneListInUse'
    \/ HeapBlock /\ input_add_char_bind /\ OneListInUse'
    \/ HeapBlock /\ input_add_key_up_bind /\ OneListInUse'
    \/ HeapBlock /\ input_add_key_down_bind /\ OneListInUse'
    \/ HeapBlock /\ input_add_mouse_move_bind /\ OneListInUse'
    \/ HeapBlock /\ input_add_mousebtn_up_bind /\ OneListInUse'
    \/ HeapBlock /\ input_add_mousebtn_down_bind /\ OneListInUse'
    \/ KeyBindsUnused /\ MouseBindsUnused /\ input_handle_mouse_event
    \/ mouse_event_foreach
    \/ mouse_event_return
    \/ HooksUnused /\ MouseBindsUnused /\ input_handle_char_bind
    \/ char_bind_foreach
    \/ char_bind_return
    \/ HooksUnused /\ MouseBindsUnused /\ input_handle_key_down_bind
    \/ key_down_bind_foreach
    \/ key_down_bind_return
    \/ HooksUnused /\ MouseBindsUnused /\ input_handle_key_up_bind
    \/ key_up_bind_foreach
    \/ key_up_bind_return
    \/ HooksUnused /\ KeyBindsUnused /\ input_handle_mouse_move_bind
    \/ mouse_move_bind_foreach
    \/ mouse_move_bind_return
    \/ HooksUnused /\ KeyBindsUnused /\ input_handle_mouse_up_bind
    \/ mouse_up_bind_foreach
    \/ mouse_up_bind_return
    \/ HooksUnused /\ KeyBindsUnused /\ input_handle_mouse_down_bind
    \/ mouse_down_bind_foreach
    \/ mouse_down_bind_return
    \/ ~input_initialized /\ input_initialize
    \/ Resume

SpecBlock == Init /\ [][NextBlock]_vars

\* The whole library.
Next ==
    \/ NextHooks
    \/ NextKeyBinds
    \/ NextMouseBinds

Spec == Init /\ [][Next]_vars

\* ------------------------------------------------------------ properties
HookFns == {"keyboard_event", "mouse_event"}
KeyBindFns == {"char_bind", "key_down_bind", "key_up_bind"}
MouseBindFns == {"mouse_move_bind", "mouse_up_bind", "mouse_down_bind"}
BindFns == KeyBindFns \cup MouseBindFns

\* A call of one of the functions fns has returned.
Returned(fns) == pc = "done" /\ call.fn \in fns

\* The addresses of the records whose handler the call invoked, in order.
InvokedIds == [i \in DOMAIN invoked |-> invoked[i].id]

\* No record of the walked list was removed during the call.
NothingRemoved == Len(ids) = Len(entry)

\* The positions of the hooks of nodes that return false.
Vetoes(nodes) == {i \in DOMAIN nodes : ~HandlerReturns(nodes[i].handler)}

Least(S) == CHOOSE i \in S : \A j \in S : i <= j

\* Whether the record rec of the walked list matches the dispatch call c.
BindMatches(c, rec) ==
    CASE c.fn = "char_bind" -> CharBindMatches(rec, c.key)
      [] c.fn = "key_down_bind" -> KeyDownBindMatches(rec, c.key)
      [] c.fn = "key_up_bind" -> KeyUpBindMatches(rec, c.key)
      [] c.fn = "mouse_move_bind" -> MouseMoveBindMatches(rec, c.button, c.x, c.y)
      [] c.fn = "mouse_up_bind" -> MouseUpBindMatches(rec, c.button, c.x, c.y)
      [] c.fn = "mouse_down_bind" -> MouseDownBindMatches(rec, c.button, c.x, c.y)

\* The positions of the records of the walked list that matched when the
\* call was made, in list order.
MatchingIds == SelectSeq(Iota(Len(entry)), LAMBDA i : BindMatches(call, entry[i]))

\* C1: when input_handle_keyboard_event / input_handle_mouse_event has walked
\* N >= 1 hooks of which hook k is the first to return false (and no hook
\* changed the list), it has invoked exactly the hooks 0..k, each once and in
\* registration order, and has returned false.
C1_HooksStopAtFirstVeto ==
    (Returned(HookFns) /\ NothingRemoved /\ Vetoes(entry) # {}) =>
        /\ InvokedIds = Iota(Least(Vetoes(entry)))
        /\ \A i \in DOMAIN invoked : invoked[i].handler = entry[i].handler
        /\ result = FALSE

\* Three hooks, the second one vetoes: two were invoked, the call returned false.
C1_Witness ==
    /\ Returned({"keyboard_event"})
    /\ Len(entry) = 3
    /\ entry[1].handler = "h_pass"
    /\ entry[2].handler = "h_veto"
    /\ InvokedIds = <<1, 2>>
    /\ result = FALSE

\* C2: each of the six bind dispatch functions returns false exactly when a
\* handler it invoked returned false (true when it invoked none), and, when
\* no handler changed the list, it has invoked every matching record of its
\* list once, in registration order, whatever the handlers returned.
C2_BindsInvokeEveryMatch ==
    Returned(BindFns) =>
        /\ result = FALSE <=>
               \E i \in DOMAIN invoked : ~HandlerReturns(invoked[i].handler)
        /\ NothingRemoved =>
               /\ InvokedIds = MatchingIds
               /\ \A i \in DOMAIN invoked : invoked[i].handler = entry[invoked[i].id].handler

\* Three matching key-down binds, the first one returns false: all three were
\* invoked, the call returned false.
C2_Witness ==
    /\ Returned({"key_down_bind"})
    /\ Len(entry) = 3
    /\ \A i \in 1 .. 3 : entry[i].key = call.key
    /\ entry[1].handler = "h_veto"
    /\ entry[2].handler = "h_pass"
    /\ InvokedIds = <<1, 2, 3>>
    /\ result = FALSE

\* How often the call invoked the handler of the record at address a.
TimesInvoked(a) == Cardinality({i \in DOMAIN invoked : invoked[i].id = a})

\* Every bind handler of the call that removed a bind removed its own.
OnlyOwnBindRemoved == \A i \in DOMAIN invoked : invoked[i].rm \in {END, invoked[i].id}

\* C3: a bind handler that removes its own bind while input_handle_key_up_bind
\* invokes it causes no read of a freed record, and the call still invokes
\* every matching bind of the key-up list exactly once.
C3_OwnBindRemovalInKeyUpIsSafe ==
    (call.fn = "key_up_bind" /\ OnlyOwnBindRemoved) =>
        /\ ~uaf
        /\ pc = "done" => InvokedIds = MatchingIds

\* C4: whatever binds of the walked list the handlers of a bind dispatch
\* remove, the walk reads no freed record, and every matching record that is
\* still in the list when the call returns was invoked exactly once.
C4_BindRemovalDuringDispatchIsSafe ==
    call.fn \in BindFns =>
        /\ ~uaf
        /\ pc = "done" =>
               \A a \in Range(ids) : BindMatches(call, entry[a]) => TimesInvoked(a) = 1

\* Every hook of the call that removed a hook called input_remove_hook with
\* its own handler.
OnlyOwnHookRemoved ==
    \A i \in DOMAIN invoked : invoked[i].rm \in {"none", invoked[i].handler}

\* C5: a hook that removes itself while input_handle_keyboard_event /
\* input_handle_mouse_event invokes it, and returns true, causes no read of a
\* freed record, and every hook left in the list is invoked exactly once.
C5_OwnHookRemovalIsSafe ==
    (call.fn \in HookFns /\ OnlyOwnHookRemoved) =>
        /\ ~uaf
        /\ (pc = "done" /\ \A i \in DOMAIN invoked : HandlerReturns(invoked[i].handler)) =>
               \A a \in Range(ids) : TimesInvoked(a) = 1

KeyBindNodesNext(type) ==
    CASE type = "BIND_CHAR" -> char_binds'.nodes
      [] type = "BIND_KEYUP" -> key_up_binds'.nodes
      [] type = "BIND_KEYDOWN" -> key_down_binds'.nodes

MouseBindNodesNext(type) ==
    CASE type = "BIND_MOVE" -> mouse_move_binds'.nodes
      [] type = "BIND_BTNUP" -> mouse_up_binds'.nodes
      [] type = "BIND_BTNDOWN" -> mouse_down_binds'.nodes

\* C6: input_remove_key_bind( bind ) / input_remove_mouse_bind( bind ) removes
\* the record bind from its list and nothing else: the other records of that
\* list keep their order and every other list is unchanged.
C6_RemoveByHandleRemovesThatRecord ==
    [][ /\ \A type \in KeyBindTypes : \A i \in DOMAIN KeyBindList(type).nodes :
               input_remove_key_bind(type, i) =>
                   /\ KeyBindNodesNext(type)
                          = Keep(KeyBindList(type).nodes,
                                 DOMAIN KeyBindList(type).nodes \ {i})
                   /\ \A other \in KeyBindTypes \ {type} :
                          KeyBindNodesNext(other) = KeyBindList(other).nodes
                   /\ UNCHANGED <<hookLists, mouseLists>>
        /\ \A type \in MouseBindTypes : \A i \in DOMAIN MouseBindList(type).nodes :
               input_remove_mouse_bind(type, i) =>
                   /\ MouseBindNodesNext(type)
                          = Keep(MouseBindList(type).nodes,
                                 DOMAIN MouseBindList(type).nodes \ {i})
                   /\ \A other \in MouseBindTypes \ {type} :
                          MouseBindNodesNext(other) = MouseBindList(other).nodes
                   /\ UNCHANGED <<hookLists, keyLists>>
      ]_vars

\* C7: a call of input_handle_keyboard_event that found at least one hook
\* returns false when block_keys is set, whatever the hooks returned, and
\* otherwise returns true exactly when no invoked hook returned false.
C7_BlockedKeysWithHooksReturnFalse ==
    (Returned({"keyboard_event"}) /\ Len(entry) >= 1) =>
        result = (~block_keys
                  /\ \A i \in DOMAIN invoked : HandlerReturns(invoked[i].handler))

\* block_keys set, two hooks that both return true: the call returned false.
C7_Witness ==
    /\ Returned({"keyboard_event"})
    /\ block_keys
    /\ Len(entry) = 2
    /\ Len(invoked) = 2
    /\ \A i \in DOMAIN invoked : HandlerReturns(invoked[i].handler)
    /\ result = FALSE

\* C8 as stated: while block_keys is set, every call of
\* input_handle_keyboard_event on an initialized system with a known event
\* type returns false.
C8_BlockedKeysAlwaysReturnFalse ==
    (Returned({"keyboard_event"}) /\ input_initialized
        /\ call.type \in EventTypes /\ block_keys) => result = FALSE

\* C8 amended: while block_keys is set, a call of input_handle_keyboard_event
\* on an initialized system with a known event type returns false exactly
\* when the hook list of that type is not empty; with an empty hook list it
\* returns true.
C8_BlockedKeysReturnFalseIffHooked ==
    (Returned({"keyboard_event"}) /\ input_initialized
        /\ call.type \in EventTypes /\ block_keys) =>
            (result = FALSE <=> Len(entry) >= 1)

\* block_keys set and one hook that returns true: the call returned false.
C8_Witness ==
    /\ Returned({"keyboard_event"})
    /\ input_initialized
    /\ block_keys
    /\ Len(entry) = 1
    /\ entry[1].handler = "h_pass"
    /\ InvokedIds = <<1>>
    /\ result = FALSE

\* C9: a call of input_handle_keyboard_event / input_handle_mouse_event for a
\* known event type whose hook list is empty returns true at once: it invokes
\* no handler, builds no event and changes neither the cursor position nor
\* any other state.
C9_EmptyHooksPassThrough ==
    [][ (/\ pc = "idle"
         /\ pc' # "idle"
         /\ call'.fn \in HookFns
         /\ input_initialized
         /\ call'.type \in EventTypes
         /\ Len(input_hooks[call'.type].nodes) = 0)
        => (/\ pc' = "done"
            /\ result' = TRUE
            /\ invoked' = <<>>
            /\ ~event'.built
            /\ UNCHANGED <<state, hookLists, keyLists, mouseLists>>)
      ]_vars

\* A mouse event for a type without hooks has returned true and the cursor
\* position is not the position of the event.
C9_Witness ==
    /\ Returned({"mouse_event"})
    /\ input_initialized
    /\ call.type \in EventTypes
    /\ Len(input_hooks[call.type].nodes) = 0
    /\ invoked = <<>>
    /\ ~event.built
    /\ result = TRUE
    /\ <<mouse_x, mouse_y>> # <<call.x, call.y>>

\* C10: every hook that input_handle_mouse_event( type, x, y, ... ) invokes
\* finds the cursor position already at (x, y), and is passed an event whose
\* dx and dy are x - px and y - py, (px, py) being the cursor position stored
\* when the call was made.
C10_CursorStoredBeforeHooks ==
    call.fn = "mouse_event" =>
        \A i \in DOMAIN invoked :
            /\ invoked[i].x = call.x
            /\ invoked[i].y = call.y
            /\ invoked[i].event.x = call.x
            /\ invoked[i].event.y = call.y
            /\ invoked[i].event.dx = call.x - call.px
            /\ invoked[i].event.dy = call.y - call.py

\* Two hooks were invoked for a mouse event that moved the cursor in x and y.
C10_Witness ==
    /\ Returned({"mouse_event"})
    /\ Len(invoked) = 2
    /\ call.x # call.px
    /\ call.y # call.py
    /\ invoked[1].event.dx = call.x - call.px
    /\ invoked[2].x = call.x
    /\ mouse_x = call.x

\* C11: after input_handle_mouse_event( type, x, y, ... ) for a known event
\* type on an initialized system, whatever hooks are registered, the stored
\* cursor position (what input_get_cursor_pos returns) is (x, y).
C11_CursorFollowsEveryMouseEvent ==
    (Returned({"mouse_event"}) /\ input_initialized /\ call.type \in EventTypes) =>
        /\ mouse_x = call.x
        /\ mouse_y = call.y

\* The positions of the records of the walked key bind list that the call has
\* to invoke: every record for a char dispatch, the records of the dispatched
\* key for a key-down / key-up dispatch.
KeyFilterIds ==
    SelectSeq(Iota(Len(entry)),
              LAMBDA i : call.fn = "char_bind" \/ entry[i].key = call.key)

\* C12: input_handle_key_down_bind( k ) / input_handle_key_up_bind( k ) invoke
\* exactly the records of their list whose key is k, input_handle_char_bind( k )
\* invokes every record of the char list once whatever its key, and every
\* handler is passed k and the userdata its record was registered with.
C12_KeyBindsFilterByKeyCharBindsDoNot ==
    (Returned(KeyBindFns) /\ NothingRemoved) =>
        /\ InvokedIds = KeyFilterIds
        /\ \A i \in DOMAIN invoked :
               /\ invoked[i].key = call.key
               /\ invoked[i].userdata = entry[invoked[i].id].userdata
               /\ invoked[i].handler = entry[invoked[i].id].handler

\* input_handle_char_bind( 2 ) has invoked two char binds registered for key 1
\* with different userdata, each with its own userdata.
C12_Witness ==
    /\ Returned({"char_bind"})
    /\ call.key = 2
    /\ Len(entry) = 2
    /\ entry[1].key = 1
    /\ entry[2].key = 1
    /\ entry[1].userdata # entry[2].userdata
    /\ InvokedIds = <<1, 2>>
    /\ invoked[1].userdata = entry[1].userdata
    /\ invoked[2].userdata = entry[2].userdata

\* (x, y) lies in the rectangle r, its edges included.
InArea(r, x, y) == x \in r.left .. r.right /\ y \in r.top .. r.bottom

\* The positions of the records of the walked mouse bind list that the call
\* has to invoke: for a move dispatch the records whose rectangle holds the
\* point, for a button dispatch those that also store the dispatched button.
MouseFilterIds ==
    SelectSeq(Iota(Len(entry)),
              LAMBDA i : /\ InArea(entry[i].bounds, call.x, call.y)
                         /\ call.fn = "mouse_move_bind" \/ entry[i].button = call.button)

\* C13: input_handle_mouse_move_bind( x, y ) invokes exactly the move binds
\* whose rectangle, edges included, holds (x, y), whatever button they store;
\* input_handle_mouse_up_bind / input_handle_mouse_down_bind( button, x, y )
\* invoke exactly the binds of their list that store that button and whose
\* rectangle holds (x, y).
C13_MouseBindsMatchAreaAndButton ==
    (Returned(MouseBindFns) /\ NothingRemoved) =>
        /\ InvokedIds = MouseFilterIds
        /\ \A i \in DOMAIN invoked : invoked[i].handler = entry[invoked[i].id].handler

\* A move dispatch on the far corner of the area of a move bind that stores a
\* button has invoked that bind, and not the move bind of the other area.
C13_Witness ==
    /\ Returned({"mouse_move_bind"})
    /\ <<call.x, call.y>> = <<2, 2>>
    /\ Len(entry) = 2
    /\ entry[1].bounds = [left |-> 0, top |-> 0, right |-> 2, bottom |-> 2]
    /\ entry[1].button = "MOUSE_LBUTTON"
    /\ entry[2].bounds # entry[1].bounds
    /\ InvokedIds = <<1>>

AddBindFns == {"add_key_bind", "add_mouse_bind"}

\* C14: while input_initialized is not set (never initialized, initialized
\* with a NULL window, or shut down), every step other than a step of
\* input_initialize( window ) with a window leaves the lists, the heap and the
\* cursor position as they are and invokes no handler; a dispatch call
\* returns true, an add-bind call returns NULL, and input_shutdown does
\* nothing.
C14_UninitializedCallsAreNoOps ==
    [][ ~input_initialized =>
            \/ lifecycle' = "input_platform_initialize"
            \/ lifecycle = "input_platform_initialize" /\ lifecycle' = "none"
            \/ /\ UNCHANGED <<input_initialized, mouse_x, mouse_y, lifecycle, leaked>>
               /\ UNCHANGED <<hookLists, keyLists, mouseLists>>
               /\ pc' \in {"idle", "done"}
               /\ invoked' = <<>>
               /\ (pc = "idle" /\ pc' = "done") =>
                      IF call'.fn \in AddBindFns
                      THEN result' = NULL
                      ELSE result' = TRUE
      ]_vars

\* After a shutdown (the cursor position shows that the library has been
\* initialized and used), an add-bind call returned NULL.
C14_Witness ==
    /\ ~input_initialized
    /\ lifecycle = "none"
    /\ \A t \in EventTypes : ~input_hooks[t].live
    /\ mouse_x = 1
    /\ pc = "done"
    /\ call.fn = "add_mouse_bind"
    /\ result = NULL

\* C15: once input_shutdown has returned, whatever calls of input_initialize
\* and of the add and remove functions came before it, no hook or bind record
\* is left on the heap, and every list is gone.
C15_ShutdownFreesEveryRecord ==
    (~input_initialized /\ lifecycle = "none") =>
        /\ HeapUsed = 0
        /\ \A t \in EventTypes : input_hooks[t] = NullList
        /\ \A type \in KeyBindTypes : KeyBindList(type) = NullList
        /\ \A type \in MouseBindTypes : MouseBindList(type) = NullList

\* A call of the function fn has been made in this step and has returned.
Called(fn) == pc = "idle" /\ pc' = "done" /\ call'.fn = fn

\* C16: input_remove_char_bind / input_remove_key_up_bind /
\* input_remove_key_down_bind( key, func ) removes from the list of its kind
\* every record with that key and that handler and nothing else: the other
\* records of the list keep their order, every other list is unchanged.
C16_BulkKeyRemovalRemovesEveryMatch ==
    [][ (Called("remove_key_bind") /\ input_initialized) =>
            LET key == call'.key
                func == call'.handler
                type == call'.list
            IN  /\ KeyBindNodesNext(type)
                       = SelectSeq(KeyBindList(type).nodes,
                                   LAMBDA r : ~(r.key = key /\ r.handler = func))
                /\ \A other \in KeyBindTypes \ {type} :
                       KeyBindNodesNext(other) = KeyBindList(other).nodes
                /\ UNCHANGED <<hookLists, mouseLists, state>>
      ]_vars

\* A removal from a list of three key binds, the first and the third with the
\* key and handler given, has left the second one.
C16_Witness ==
    /\ Returned({"remove_key_bind"})
    /\ Len(entry) = 3
    /\ entry[1].key = call.key /\ entry[1].handler = call.handler
    /\ entry[3].key = call.key /\ entry[3].handler = call.handler
    /\ entry[2].key = call.key /\ entry[2].handler # call.handler
    /\ KeyBindList(call.list).nodes = <<entry[2]>>

\* How often the handler h is registered in the hook list nodes.
TimesRegistered(nodes, h) == Cardinality({i \in DOMAIN nodes : nodes[i].handler = h})

\* The hook list nodes without its first record with the handler h.
WithoutFirst(nodes, h) ==
    IF TimesRegistered(nodes, h) = 0 THEN nodes
    ELSE LET k == Least({i \in DOMAIN nodes : nodes[i].handler = h})
         IN  SubSeq(nodes, 1, k - 1) \o SubSeq(nodes, k + 1, Len(nodes))

\* C17: input_remove_hook( event_id, handler ) removes the earliest-registered
\* hook of that event type with that handler and no other: of m >= 1 hooks
\* with the handler m - 1 are left, the other hooks keep their order, the
\* lists of the other event types are unchanged, and without a match nothing
\* changes.
C17_RemoveHookRemovesFirstMatchOnly ==
    [][ (Called("remove_hook") /\ input_initialized /\ call'.type \in EventTypes) =>
            LET t == call'.type
                h == call'.handler
                m == TimesRegistered(input_hooks[t].nodes, h)
            IN  /\ input_hooks'[t].nodes = WithoutFirst(input_hooks[t].nodes, h)
                /\ TimesRegistered(input_hooks'[t].nodes, h) = IF m = 0 THEN 0 ELSE m - 1
                /\ \A other \in EventTypes \ {t} : input_hooks'[other] = input_hooks[other]
                /\ UNCHANGED <<keyLists, mouseLists, state>>
      ]_vars

\* A removal from three hooks of one type, the second and the third with the
\* handler given, has left the first and the third.
C17_Witness ==
    /\ Returned({"remove_hook"})
    /\ Len(entry) = 3
    /\ entry[1].handler # call.handler
    /\ entry[2].handler = call.handler
    /\ entry[3].handler = call.handler
    /\ input_hooks[call.type].nodes = <<entry[1], entry[3]>>

\* C18: input_remove_mouse_move_bind / input_remove_mousebtn_up_bind /
\* input_remove_mousebtn_down_bind with button b and handler h removes from
\* the list of its kind exactly the records that store b and a handler other
\* than h; the records with the handler h and the records of another button
\* stay, in their order.
C18_BulkMouseRemovalRemovesOtherHandlers ==
    [][ (Called("remove_mouse_bind") /\ input_initialized) =>
            LET b == call'.button
                h == call'.handler
                type == call'.list
            IN  /\ MouseBindNodesNext(type)
                       = SelectSeq(MouseBindList(type).nodes,
                                   LAMBDA r : ~(r.button = b /\ r.handler # h))
                /\ \A other \in MouseBindTypes \ {type} :
                       MouseBindNodesNext(other) = MouseBindList(other).nodes
                /\ UNCHANGED <<hookLists, keyLists, state>>
      ]_vars

\* A removal from three button-up binds, one with the button and the handler
\* given, one with the button and another handler, one with another button
\* and another handler, has left the first and the third.
C18_Witness ==
    /\ Returned({"remove_mouse_bind"})
    /\ call.list = "BIND_BTNUP"
    /\ Len(entry) = 3
    /\ entry[1].button = call.button /\ entry[1].handler = call.handler
    /\ entry[2].button = call.button /\ entry[2].handler # call.handler
    /\ entry[3].button # call.button /\ entry[3].handler # call.handler
    /\ mouse_up_binds.nodes = <<entry[1], entry[3]>>

\* C19: whenever input_initialized is set, also while input_initialize or
\* input_shutdown is waiting for the platform collaborator, every hook list
\* and every bind list exists.
C19_InitializedMeansListsExist ==
    input_initialized =>
        /\ \A t \in EventTypes : input_hooks[t].live
        /\ \A type \in KeyBindTypes : KeyBindList(type).live
        /\ \A type \in MouseBindTypes : MouseBindList(type).live

\* What a call of input_handle_mouse_event or of a bind dispatch function has
\* to invoke and to return, from the walked list and the arguments of the
\* call alone: the hooks up to the first one that returns false, or every
\* matching bind.
ExpectedIds ==
    IF call.fn = "mouse_event"
    THEN IF Vetoes(entry) = {} THEN Iota(Len(entry)) ELSE Iota(Least(Vetoes(entry)))
    ELSE MatchingIds

ExpectedResult ==
    IF call.fn = "mouse_event"
    THEN Vetoes(entry) = {}
    ELSE \A i \in Range(MatchingIds) : HandlerReturns(entry[i].handler)

\* C20: what input_handle_mouse_event and the six bind dispatch functions
\* invoke and return is fixed by the walked list, the arguments and the
\* handlers: it is the same with block_keys set and with block_keys clear.
C20_BlockFlagOnlyAffectsKeyboardEvents ==
    Returned({"mouse_event"} \cup BindFns) =>
        /\ result = \A i \in DOMAIN invoked : HandlerReturns(invoked[i].handler)
        /\ NothingRemoved =>
               /\ InvokedIds = ExpectedIds
               /\ result = ExpectedResult

\* With block_keys set, a key-down dispatch has invoked two binds and returned
\* true.
C20_Witness ==
    /\ block_keys
    /\ Returned({"key_down_bind"})
    /\ InvokedIds = <<1, 2>>
    /\ result = TRUE

====
